---- MODULE Spec2Model ----
(***************************************************************************)
(* gus (Git User Switcher): the identity registry, the auto-switch rules,  *)
(* the per-shell session script and the shell functions that the setup     *)
(* script installs.                                                        *)
(*                                                                         *)
(* Strings that the program takes apart (glob patterns, directories) are   *)
(* sequences of one-character strings.  A shell script made of export      *)
(* lines is the function from the exported names to their values; a shell  *)
(* environment is the function from the names that are set to their values.*)
(* Writes to the local file system are taken to succeed.                   *)
(***************************************************************************)
EXTENDS Naturals, Sequences, FiniteSets, TLC

VARIABLES fs, sh, gus, res, home

vars == <<fs, sh, gus, res, home>>

(***************************************************************************)
(* Bounds and input sets                                                   *)
(***************************************************************************)
MaxRules == 2          \* longest rule list the models build or start from

\* the process ids of the two interactive shells
Pids == {1, 2}
Ids == {"a", "b"}
\* an id that the shell reads as the parameter expansion of the variable c
MetaId == "$c"
MetaVar == "c"
TypedIds == Ids \cup {MetaId}
NoErr == "ok"
NoPath == ""
\* Option<&str> of a passphrase, by its length
NoPass == [some |-> FALSE, len |-> 0]
SomePass(n) == [some |-> TRUE, len |-> n]

\* the directory of the invoking user, as dirs::home_dir() gives it
HomeDir == <<"/", "h">>
DirWork == <<"/", "h", "/", "w", "/", "x">>
DirOther == <<"/", "h", "/", "o">>
Dirs == {DirWork, DirOther}

PatWork == <<"~", "/", "w", "/", "*">>
PatAny == <<"/", "*">>
PatBad == <<"[", "w">>
Patterns == {PatWork, PatAny, PatBad}

(***************************************************************************)
(* user.rs                                                                 *)
(***************************************************************************)
User(id, name, email) ==
    [id |-> id, name |-> name, email |-> email, sshkey_path |-> NoPath]

UserInputs ==
    {User("a", "n1", "e1"), User("a", "n2", "e2"), User("b", "n1", "e1"),
     User(MetaId, "n1", "e1")}

get_sshkey_name(user) ==
    IF user.sshkey_path # NoPath THEN <<user.sshkey_path>> ELSE <<"id_", user.id>>

get_sshkey_path(user, default_sshkey_dir) ==
    IF user.sshkey_path # NoPath
    THEN <<user.sshkey_path>>
    ELSE <<default_sshkey_dir>> \o get_sshkey_name(user)

Users_new == <<>>

Users_exists(users, id) == id \in DOMAIN users

\* (mutant) the insert is not guarded by exists
Users_add_overwrite(users, user) ==
    [err |-> NoErr,
     users |-> [i \in DOMAIN users \cup {user.id} |->
                   IF i = user.id THEN user ELSE users[i]]]

Users_add(users, user) ==
    IF Users_exists(users, user.id)
    THEN [err |-> "user already exists", users |-> users]
    ELSE [err |-> NoErr,
          users |-> [i \in DOMAIN users \cup {user.id} |->
                        IF i = user.id THEN user ELSE users[i]]]

Users_remove(users, id) == [i \in DOMAIN users \ {id} |-> users[i]]

\* toml::to_string(&Users): one table per key; a None sshkey_path is left out
Users_to_toml(users) ==
    [i \in DOMAIN users |->
        IF users[i].sshkey_path = NoPath
        THEN [id |-> users[i].id, name |-> users[i].name, email |-> users[i].email]
        ELSE users[i]]

\* toml::from_str::<Users>: a table without sshkey_path reads as None
Users_from_toml(doc) ==
    [i \in DOMAIN doc |->
        [id |-> doc[i].id, name |-> doc[i].name, email |-> doc[i].email,
         sshkey_path |-> IF "sshkey_path" \in DOMAIN doc[i]
                         THEN doc[i].sshkey_path ELSE NoPath]]

\* A file: whether it exists and what it holds.  left marks a session script
\* that a shell which has ended left behind; a write makes a new file.
NoFile == [exists |-> FALSE, doc |-> <<>>, left |-> FALSE]
File(doc) == [exists |-> TRUE, doc |-> doc, left |-> FALSE]

\* (mutant) the tables already in the file are kept
Users_save_merge(users, f) ==
    [f EXCEPT !.users =
        File([i \in DOMAIN f.users.doc \cup DOMAIN users |->
                 IF i \in DOMAIN users THEN Users_to_toml(users)[i] ELSE f.users.doc[i]])]

Users_save(users, f) == [f EXCEPT !.users = File(Users_to_toml(users))]

\* Users::open: a missing file is created empty
Users_open(f) ==
    IF ~f.users.exists
    THEN [users |-> Users_new, fs |-> Users_save(Users_new, f)]
    ELSE [users |-> Users_from_toml(f.users.doc), fs |-> f]

(***************************************************************************)
(* config.rs                                                               *)
(***************************************************************************)
DefaultRounds == 100
DefaultMinPassLen == 10

Config_default ==
    [users_file_path |-> "users.toml",
     default_sshkey_dir |-> "sshkeys/",
     default_sshkey_type |-> "ed25519",
     default_sshkey_rounds |-> DefaultRounds,
     force_use_gus |-> TRUE,
     min_sshkey_passphrase_length |-> DefaultMinPassLen,
     auto_switch_enabled |-> FALSE,
     auto_switch_patterns |-> <<>>]

ConfigKeys == DOMAIN Config_default

AutoSwitchPattern(pattern, user_id) == [pattern |-> pattern, user_id |-> user_id]

\* (mutant) auto_switch_enabled is not written
Config_to_toml_skip(config) ==
    [k \in ConfigKeys \ {"auto_switch_enabled"} |-> config[k]]

\* toml::to_string(&Config): every field is written
Config_to_toml(config) == [k \in ConfigKeys |-> config[k]]

\* toml::from_str::<Config> under #[serde(default)]: a missing key takes its default
Config_from_toml(doc) ==
    [k \in ConfigKeys |-> IF k \in DOMAIN doc THEN doc[k] ELSE Config_default[k]]

Config_save(config, f) == [f EXCEPT !.config = File(Config_to_toml(config))]

\* Config::open: a missing file is created with the defaults
Config_open(f) ==
    IF ~f.config.exists
    THEN [config |-> Config_default, fs |-> Config_save(Config_default, f)]
    ELSE [config |-> Config_from_toml(f.config.doc), fs |-> f]

(***************************************************************************)
(* glob::Pattern, for patterns over literal characters, '*', '?' and an    *)
(* unclosed '[' (the alphabet of Patterns holds no ']' and no "**")        *)
(***************************************************************************)
Pattern_new_ok(p) == \A i \in 1..Len(p) : p[i] # "["

RECURSIVE Pattern_matches(_, _)
Pattern_matches(p, s) ==
    IF p = <<>> THEN s = <<>>
    ELSE IF Head(p) = "*"
         THEN Pattern_matches(Tail(p), s)
              \/ (s # <<>> /\ Pattern_matches(p, Tail(s)))
         ELSE /\ s # <<>>
              /\ (Head(p) = "?" \/ Head(p) = Head(s))
              /\ Pattern_matches(Tail(p), Tail(s))

(***************************************************************************)
(* auto_switch.rs                                                          *)
(***************************************************************************)
AutoSwitcher_new(config, users) == [config |-> config, users |-> users]

\* (mutant) without a home directory the tilde stands for the usual one
expand_tilde_fallback(path, h) ==
    IF path # <<>> /\ Head(path) = "~"
    THEN (IF h.some THEN h.dir ELSE HomeDir) \o Tail(path)
    ELSE path

\* h is the result of dirs::home_dir(): [some |-> BOOLEAN, dir |-> path]
expand_tilde(path, h) ==
    IF path # <<>> /\ Head(path) = "~" /\ h.some
    THEN h.dir \o Tail(path)
    ELSE path

\* (mutant) the scan does not ask whether the registry holds the identity
RECURSIVE scan_patterns_anyuser(_, _, _, _)
scan_patterns_anyuser(patterns, users, current_dir, h) ==
    IF patterns = <<>> THEN [some |-> FALSE, id |-> ""]
    ELSE LET pattern == Head(patterns)
             expanded_pattern == expand_tilde(pattern.pattern, h)
         IN IF /\ Pattern_new_ok(expanded_pattern)
               /\ Pattern_matches(expanded_pattern, current_dir)
            THEN [some |-> TRUE, id |-> pattern.user_id]
            ELSE scan_patterns_anyuser(Tail(patterns), users, current_dir, h)

\* (mutant) a pattern that is not a glob ends the scan
RECURSIVE scan_patterns_badstop(_, _, _, _)
scan_patterns_badstop(patterns, users, current_dir, h) ==
    IF patterns = <<>> THEN [some |-> FALSE, id |-> ""]
    ELSE LET pattern == Head(patterns)
             expanded_pattern == expand_tilde(pattern.pattern, h)
         IN IF ~Pattern_new_ok(expanded_pattern)
            THEN [some |-> FALSE, id |-> ""]
            ELSE IF /\ Pattern_matches(expanded_pattern, current_dir)
                    /\ Users_exists(users, pattern.user_id)
                 THEN [some |-> TRUE, id |-> pattern.user_id]
                 ELSE scan_patterns_badstop(Tail(patterns), users, current_dir, h)

\* (mutant) the scan ends at the first pattern that matches, whoever it names
RECURSIVE scan_patterns_stop(_, _, _, _)
scan_patterns_stop(patterns, users, current_dir, h) ==
    IF patterns = <<>> THEN [some |-> FALSE, id |-> ""]
    ELSE LET pattern == Head(patterns)
             expanded_pattern == expand_tilde(pattern.pattern, h)
         IN IF /\ Pattern_new_ok(expanded_pattern)
               /\ Pattern_matches(expanded_pattern, current_dir)
            THEN IF Users_exists(users, pattern.user_id)
                 THEN [some |-> TRUE, id |-> pattern.user_id]
                 ELSE [some |-> FALSE, id |-> ""]
            ELSE scan_patterns_stop(Tail(patterns), users, current_dir, h)

RECURSIVE scan_patterns(_, _, _, _)
scan_patterns(patterns, users, current_dir, h) ==
    IF patterns = <<>> THEN [some |-> FALSE, id |-> ""]
    ELSE LET pattern == Head(patterns)
             expanded_pattern == expand_tilde(pattern.pattern, h)
         IN IF /\ Pattern_new_ok(expanded_pattern)
               /\ Pattern_matches(expanded_pattern, current_dir)
               /\ Users_exists(users, pattern.user_id)
            THEN [some |-> TRUE, id |-> pattern.user_id]
            ELSE scan_patterns(Tail(patterns), users, current_dir, h)

\* (mutant) the enabled flag is not looked at
should_switch_always(as, current_dir, h) ==
    scan_patterns(as.config.auto_switch_patterns, as.users, current_dir, h)

should_switch(as, current_dir, h) ==
    IF ~as.config.auto_switch_enabled
    THEN [some |-> FALSE, id |-> ""]
    ELSE scan_patterns(as.config.auto_switch_patterns, as.users, current_dir, h)

list_patterns(as) == as.config.auto_switch_patterns

(***************************************************************************)
(* shell.rs                                                                *)
(***************************************************************************)
\* (mutant) the path does not depend on the parent process
get_session_script_path_shared(ppid) == <<"/tmp", "gus", "session", 0, ".sh">>

\* temp_dir / file name of the executable / session<ppid>.sh
get_session_script_path(ppid) == <<"/tmp", "gus", "session", ppid, ".sh">>

SessionPaths == {get_session_script_path(p) : p \in Pids}

write_session_script(script, ppid, f) ==
    [f EXCEPT !.sess[get_session_script_path(ppid)] = File(script)]

\* The text get_setup_script renders, as its slots: the path it bakes in and
\* which of the two optional fragments of gus.rs it carries.
setup_script_text(ppid, force_use_gus, auto_switch) ==
    [loaded_flag_key |-> "GUS_LOADED_FLAG",
     session_script_path |-> get_session_script_path(ppid),
     force_use_gus |-> force_use_gus,
     auto_switch |-> auto_switch]

(***************************************************************************)
(* gus.rs: a GitUserSwitcher is [users, config, auto_switcher]; every      *)
(* method gives [gus, fs, err, ret]: the instance and the files after the  *)
(* call, the error (NoErr for Ok) and a boolean result                     *)
(***************************************************************************)
Ret(g, f, err, ret) == [gus |-> g, fs |-> f, err |-> err, ret |-> ret]

\* impl From<&PathBuf>: the auto switcher gets clones of the loaded values
GitUserSwitcher_from(f) ==
    LET c == Config_open(f)
        u == Users_open(c.fs)
    IN Ret([users |-> u.users, config |-> c.config,
            auto_switcher |-> AutoSwitcher_new(c.config, u.users)],
           u.fs, NoErr, TRUE)

\* pass is NoPass or SomePass(length); key_exists and keygen_ok are
\* what sshkey_path.exists() and generate_ssh_key answer
add_user(g, f, user, pass, key_exists, keygen_ok) ==
    LET a == Users_add(g.users, user)
        g1 == [g EXCEPT !.users = a.users]
    IN IF a.err # NoErr THEN Ret(g, f, a.err, FALSE)
       ELSE IF ~key_exists /\ ~pass.some
            THEN Ret(g1, f, "ssh key passphrase required", FALSE)
       ELSE IF ~key_exists /\ pass.len < g.config.min_sshkey_passphrase_length
            THEN Ret(g1, f, "ssh key passphrase too short", FALSE)
       ELSE IF ~key_exists /\ ~keygen_ok
            THEN Ret(g1, f, "failed to generate ssh key", FALSE)
       ELSE Ret(g1, Users_save(g1.users, f), NoErr, TRUE)

\* (mutant) the registry is not saved after the removal
remove_user_nosave(g, f, id) ==
    IF ~Users_exists(g.users, id)
    THEN Ret(g, f, "user does not exist", FALSE)
    ELSE LET g1 == [g EXCEPT !.users = Users_remove(g.users, id)]
         IN Ret(g1, f, NoErr, TRUE)

remove_user(g, f, id) ==
    IF ~Users_exists(g.users, id)
    THEN Ret(g, f, "user does not exist", FALSE)
    ELSE LET g1 == [g EXCEPT !.users = Users_remove(g.users, id)]
         IN Ret(g1, Users_save(g1.users, f), NoErr, TRUE)

\* (mutant) the committer is not exported
session_exports_nocommitter(user, default_sshkey_dir) ==
    [GUS_USER_ID |-> user.id,
     GIT_AUTHOR_NAME |-> user.name,
     GIT_AUTHOR_EMAIL |-> user.email,
     GIT_SSH_COMMAND |-> <<"ssh -i">> \o get_sshkey_path(user, default_sshkey_dir)
                             \o <<"-F /dev/null">>]

session_exports(user, default_sshkey_dir) ==
    [GUS_USER_ID |-> user.id,
     GIT_AUTHOR_NAME |-> user.name,
     GIT_AUTHOR_EMAIL |-> user.email,
     GIT_COMMITTER_NAME |-> user.name,
     GIT_COMMITTER_EMAIL |-> user.email,
     GIT_SSH_COMMAND |-> <<"ssh -i">> \o get_sshkey_path(user, default_sshkey_dir)
                             \o <<"-F /dev/null">>]

\* (mutant) the session script is truncated before the id is looked up
switch_user_writefirst(g, f, id, ppid) ==
    IF ~Users_exists(g.users, id)
    THEN Ret(g, write_session_script(<<>>, ppid, f), "user does not exist", FALSE)
    ELSE Ret(g,
             write_session_script(
                 session_exports(g.users[id], g.config.default_sshkey_dir), ppid, f),
             NoErr, TRUE)

switch_user(g, f, id, ppid) ==
    IF ~Users_exists(g.users, id)
    THEN Ret(g, f, "user does not exist", FALSE)
    ELSE Ret(g,
             write_session_script(
                 session_exports(g.users[id], g.config.default_sshkey_dir), ppid, f),
             NoErr, TRUE)

\* env::var("GUS_USER_ID").unwrap_or_default(), then Users::get
get_current_user(g, env) ==
    LET id == IF "GUS_USER_ID" \in DOMAIN env THEN env["GUS_USER_ID"] ELSE ""
    IN IF Users_exists(g.users, id)
       THEN [some |-> TRUE, user |-> g.users[id]]
       ELSE [some |-> FALSE, user |-> User("", "", "")]

enable_auto_switch(g, f) ==
    LET g1 == [g EXCEPT !.config.auto_switch_enabled = TRUE]
    IN Ret(g1, Config_save(g1.config, f), NoErr, TRUE)

disable_auto_switch(g, f) ==
    LET g1 == [g EXCEPT !.config.auto_switch_enabled = FALSE]
    IN Ret(g1, Config_save(g1.config, f), NoErr, TRUE)

\* (mutant) the rule is stored with its tilde expanded
add_auto_switch_pattern_expanded(g, f, pattern, user_id) ==
    IF ~Users_exists(g.users, user_id)
    THEN Ret(g, f, "User does not exist", FALSE)
    ELSE IF ~Pattern_new_ok(pattern)
    THEN Ret(g, f, "Invalid glob pattern", FALSE)
    ELSE LET g1 == [g EXCEPT !.config.auto_switch_patterns =
                        Append(@, AutoSwitchPattern(
                            expand_tilde(pattern, [some |-> TRUE, dir |-> HomeDir]),
                            user_id))]
         IN Ret(g1, Config_save(g1.config, f), NoErr, TRUE)

\* (mutant) the rule is pushed before the pattern is validated
add_auto_switch_pattern_pushfirst(g, f, pattern, user_id) ==
    IF ~Users_exists(g.users, user_id)
    THEN Ret(g, f, "User does not exist", FALSE)
    ELSE LET g1 == [g EXCEPT !.config.auto_switch_patterns =
                        Append(@, AutoSwitchPattern(pattern, user_id))]
         IN IF ~Pattern_new_ok(pattern)
            THEN Ret(g1, f, "Invalid glob pattern", FALSE)
            ELSE Ret(g1, Config_save(g1.config, f), NoErr, TRUE)

\* (mutant) the pattern is validated before the user id
add_auto_switch_pattern_patfirst(g, f, pattern, user_id) ==
    IF ~Pattern_new_ok(pattern)
    THEN Ret(g, f, "Invalid glob pattern", FALSE)
    ELSE IF ~Users_exists(g.users, user_id)
    THEN Ret(g, f, "User does not exist", FALSE)
    ELSE LET g1 == [g EXCEPT !.config.auto_switch_patterns =
                        Append(@, AutoSwitchPattern(pattern, user_id))]
         IN Ret(g1, Config_save(g1.config, f), NoErr, TRUE)

add_auto_switch_pattern(g, f, pattern, user_id) ==
    IF ~Users_exists(g.users, user_id)
    THEN Ret(g, f, "User does not exist", FALSE)
    ELSE IF ~Pattern_new_ok(pattern)
    THEN Ret(g, f, "Invalid glob pattern", FALSE)
    ELSE LET g1 == [g EXCEPT !.config.auto_switch_patterns =
                        Append(@, AutoSwitchPattern(pattern, user_id))]
         IN Ret(g1, Config_save(g1.config, f), NoErr, TRUE)

remove_auto_switch_pattern(g, f, pattern) ==
    LET keep(p) == p.pattern # pattern
        g1 == [g EXCEPT !.config.auto_switch_patterns = SelectSeq(@, keep)]
        removed == Len(g.config.auto_switch_patterns)
                       # Len(g1.config.auto_switch_patterns)
    IN IF removed
       THEN Ret(g1, Config_save(g1.config, f), NoErr, TRUE)
       ELSE Ret(g1, f, NoErr, FALSE)

list_auto_switch_patterns(g) == list_patterns(g.auto_switcher)

\* (mutant) without a rule for the directory the session script is emptied
check_auto_switch_clear(g, f, current_dir, h, ppid) ==
    LET user_id == should_switch(g.auto_switcher, current_dir, h)
    IN IF user_id.some
       THEN switch_user(g, f, user_id.id, ppid)
       ELSE Ret(g, write_session_script(<<>>, ppid, f), NoErr, TRUE)

check_auto_switch(g, f, current_dir, h, ppid) ==
    LET user_id == should_switch(g.auto_switcher, current_dir, h)
    IN IF user_id.some
       THEN switch_user(g, f, user_id.id, ppid)
       ELSE Ret(g, f, NoErr, TRUE)

\* writes the empty session script, then renders the setup script
get_setup_script(g, f, ppid) ==
    [fs |-> write_session_script(<<>>, ppid, f),
     script |-> setup_script_text(ppid, g.config.force_use_gus,
                                  g.config.auto_switch_enabled)]

(***************************************************************************)
(* cli.rs: one run of the executable.  A command is a record of the        *)
(* subcommand and its arguments; an argument a subcommand does not take    *)
(* is left at its default.                                                 *)
(***************************************************************************)
Cmd(op) ==
    [op |-> op, id |-> "", user |-> User("", "", ""), pattern |-> <<>>,
     pass |-> 0, key_exists |-> FALSE, keygen_ok |-> TRUE]

NoScript == setup_script_text(0, FALSE, FALSE)

Out(r, script) == [gus |-> r.gus, fs |-> r.fs, err |-> r.err, ret |-> r.ret,
                   script |-> script]

\* main returns the error of run: exit status 1, and 0 for Ok
ExitCode(err) == IF err = NoErr THEN 0 ELSE 1

cli_add(g, f, cmd) ==
    IF Users_exists(g.users, cmd.user.id)
    THEN Ret(g, f, "user already exists", FALSE)
    ELSE LET is_required_sshkey_passphrase ==
                 IF cmd.user.sshkey_path # NoPath THEN ~cmd.key_exists ELSE TRUE
         IN IF is_required_sshkey_passphrase
            THEN IF cmd.pass < g.config.min_sshkey_passphrase_length
                 THEN Ret(g, f, "ssh key passphrase too short", FALSE)
                 ELSE add_user(g, f, cmd.user, SomePass(cmd.pass),
                               cmd.key_exists, cmd.keygen_ok)
            ELSE add_user(g, f, cmd.user, NoPass, cmd.key_exists, cmd.keygen_ok)

run(cmd, f, env, current_dir, h, ppid) ==
    LET c == GitUserSwitcher_from(f)
        g == c.gus
        f0 == c.fs
    IN CASE cmd.op = "setup" ->
              LET s == get_setup_script(g, f0, ppid)
              IN Out(Ret(g, s.fs, NoErr, TRUE), s.script)
         [] cmd.op = "add" -> Out(cli_add(g, f0, cmd), NoScript)
         [] cmd.op = "remove" -> Out(remove_user(g, f0, cmd.id), NoScript)
         [] cmd.op = "set" -> Out(switch_user(g, f0, cmd.id, ppid), NoScript)
         [] cmd.op = "current" ->
              Out(Ret(g, f0,
                      IF get_current_user(g, env).some THEN NoErr ELSE "no current user",
                      TRUE), NoScript)
         [] cmd.op = "list" -> Out(Ret(g, f0, NoErr, TRUE), NoScript)
         [] cmd.op = "enable" -> Out(enable_auto_switch(g, f0), NoScript)
         [] cmd.op = "disable" -> Out(disable_auto_switch(g, f0), NoScript)
         [] cmd.op = "as_add" ->
              Out(add_auto_switch_pattern(g, f0, cmd.pattern, cmd.id), NoScript)
         [] cmd.op = "as_remove" ->
              Out(remove_auto_switch_pattern(g, f0, cmd.pattern), NoScript)
         [] cmd.op = "as_list" -> Out(Ret(g, f0, NoErr, TRUE), NoScript)
         [] cmd.op = "check" ->
              Out(check_auto_switch(g, f0, current_dir, h, ppid), NoScript)

(***************************************************************************)
(* The interactive shell.  A shell is                                      *)
(*   alive   whether a shell with this process id is running               *)
(*   env     its exported variables                                        *)
(*   fn      the functions the setup script defined in it                  *)
(*   cwd     its working directory                                         *)
(*   status  $? of the last command                                        *)
(*   pc      where it stands: "idle" at the prompt; "wrap" inside the gus  *)
(*           function and "bare" without it, after the executable ran      *)
(*           `gus op arg` and returned exit; "git_read" and "git_cmd"      *)
(*           inside the git function                                       *)
(*   err     the error that run of the executable ended with               *)
(*   k       what called gus: the prompt ("top"), or a line of the git or  *)
(*           cd function                                                   *)
(*   cleared (history) the setup script, when it installed the functions,  *)
(*           found exports that an earlier shell had left behind           *)
(***************************************************************************)
NoFn ==
    [gus |-> [defined |-> FALSE, session_script_path |-> get_session_script_path(0)],
     git |-> [defined |-> FALSE, force_use_gus |-> FALSE],
     cd |-> [defined |-> FALSE]]

NoShell ==
    [alive |-> FALSE, env |-> <<>>, fn |-> NoFn, cwd |-> DirOther,
     status |-> 0, pc |-> "idle", op |-> "", arg |-> "", exit |-> 0,
     err |-> NoErr, k |-> "top", cleared |-> FALSE]

\* [ -z "$name" ]
IsEmpty(env, name) == name \notin DOMAIN env \/ env[name] = ""

\* the value the shell gives the text between double quotes: "$c" is the
\* value of the variable c, empty when c is not set
expand(text, env) ==
    IF text = MetaId
    THEN IF MetaVar \in DOMAIN env THEN env[MetaVar] ELSE ""
    ELSE text

\* export NAME="text": the exported value of the line that sets `name`
exported(name, text, env) ==
    IF name = "GIT_SSH_COMMAND"
    THEN [i \in DOMAIN text |-> expand(text[i], env)]
    ELSE expand(text, env)

\* sourcing a script of export lines
source(env, script) ==
    [n \in DOMAIN env \cup DOMAIN script |->
        IF n \in DOMAIN script THEN exported(n, script[n], env) ELSE env[n]]

\* (mutant) the loaded flag is not exported
eval_setup_script_noflag(s, script, f) ==
    IF IsEmpty(s.env, script.loaded_flag_key)
    THEN [sh |-> [s EXCEPT
                    !.fn.gus = [defined |-> TRUE,
                                session_script_path |-> script.session_script_path],
                    !.fn.git = [defined |-> TRUE,
                                force_use_gus |-> script.force_use_gus],
                    !.fn.cd = IF script.auto_switch THEN [defined |-> TRUE] ELSE @,
                    !.status = 0],
          fs |-> [f EXCEPT !.sess[script.session_script_path] = NoFile]]
    ELSE [sh |-> [s EXCEPT !.status = 0], fs |-> f]

\* (mutant) the guard on the loaded flag is missing
eval_setup_script_unguarded(s, script, f) ==
    [sh |-> [s EXCEPT
               !.env = source(@, [GUS_LOADED_FLAG |-> "1"]),
               !.fn.gus = [defined |-> TRUE,
                           session_script_path |-> script.session_script_path],
               !.fn.git = [defined |-> TRUE,
                           force_use_gus |-> script.force_use_gus],
               !.fn.cd = IF script.auto_switch THEN [defined |-> TRUE] ELSE @,
               !.status = 0],
     fs |-> [f EXCEPT !.sess[script.session_script_path] = NoFile]]

\* shell.rs 54-66 with the fragment of gus.rs 200-243: what eval of the setup
\* script does to the shell s and to the files
eval_setup_script(s, script, f) ==
    IF IsEmpty(s.env, script.loaded_flag_key)
    THEN [sh |-> [s EXCEPT
                    !.env = source(@, [GUS_LOADED_FLAG |-> "1"]),
                    !.fn.gus = [defined |-> TRUE,
                                session_script_path |-> script.session_script_path],
                    !.fn.git = [defined |-> TRUE,
                                force_use_gus |-> script.force_use_gus],
                    !.fn.cd = IF script.auto_switch THEN [defined |-> TRUE] ELSE @,
                    !.status = 0],
          fs |-> [f EXCEPT !.sess[script.session_script_path] = NoFile]]
    ELSE [sh |-> [s EXCEPT !.status = 0], fs |-> f]

\* (mutant) the session script is sourced whatever the exit status
wrapper_return_always(s, f) ==
    LET file == f.sess[s.fn.gus.session_script_path]
    IN IF file.exists
       THEN [s EXCEPT !.env = source(@, file.doc), !.status = 0]
       ELSE [s EXCEPT !.status = 1]

\* shell.rs 59-63: the gus function after the executable returned s.exit;
\* `source` of a missing file fails with status 1
wrapper_return(s, f) ==
    IF s.exit # 0 THEN [s EXCEPT !.status = s.exit]
    ELSE LET file == f.sess[s.fn.gus.session_script_path]
         IN IF file.exists
            THEN [s EXCEPT !.env = source(@, file.doc), !.status = 0]
            ELSE [s EXCEPT !.status = 1]

\* the executable called without the function: $? is its exit status
bare_return(s) == [s EXCEPT !.status = s.exit]

\* where the caller of the gus function goes on once it returned
Done(s, pc) ==
    [s EXCEPT !.pc = pc, !.op = "", !.arg = "", !.exit = 0, !.err = NoErr, !.k = "top"]

continue(s) ==
    CASE s.k = "git_list" -> Done(s, "git_read")
      [] s.k = "git_set" -> Done(s, IF s.status # 0 THEN "idle" ELSE "git_cmd")
      [] OTHER -> Done(s, "idle")

\* the shell s, with process id p, calls `gus <cmd>` from k
Invoke(p, s, cmd, k) ==
    LET r == run(cmd, fs, s.env, s.cwd, home, p)
    IN /\ fs' = r.fs
       /\ sh' = [sh EXCEPT ![p] =
                   [s EXCEPT !.pc = IF s.fn.gus.defined THEN "wrap" ELSE "bare",
                             !.op = cmd.op, !.arg = cmd.id,
                             !.exit = ExitCode(r.err), !.err = r.err, !.k = k]]
       /\ UNCHANGED <<gus, res, home>>

AtPrompt(p) == sh[p].alive /\ sh[p].pc = "idle"

(***************************************************************************)
(* The commands a user types at the prompt of shell p                      *)
(***************************************************************************)
SetCmd(id) == [Cmd("set") EXCEPT !.id = id]
RemoveCmd(id) == [Cmd("remove") EXCEPT !.id = id]
AddCmd(user, pass, key_exists, keygen_ok) ==
    [Cmd("add") EXCEPT !.id = user.id, !.user = user, !.pass = pass,
                       !.key_exists = key_exists, !.keygen_ok = keygen_ok]
AsAddCmd(pattern, id) == [Cmd("as_add") EXCEPT !.pattern = pattern, !.id = id]
AsRemoveCmd(pattern) == [Cmd("as_remove") EXCEPT !.pattern = pattern]

PassLens == {DefaultMinPassLen - 1, DefaultMinPassLen}

\* the rule patterns typed at the prompt
TypedPatterns == {PatWork, PatBad}

\* identities, the session and git
SessionCmds ==
    {Cmd(op) : op \in {"setup", "current", "list"}}
    \cup {SetCmd(id) : id \in TypedIds}
    \cup {RemoveCmd(id) : id \in TypedIds}
    \cup {AddCmd(u, n, FALSE, ok) : u \in UserInputs, n \in PassLens, ok \in BOOLEAN}

\* the auto-switch subcommands
AutoSwitchCmds ==
    {Cmd(op) : op \in {"enable", "disable", "check", "as_list"}}
    \cup {AsAddCmd(pt, id) : pt \in TypedPatterns, id \in Ids}
    \cup {AsRemoveCmd(pt) : pt \in TypedPatterns}

\* the commands that change the registry, as they are run elsewhere
RegistryCmds ==
    {RemoveCmd(id) : id \in TypedIds}
    \cup {AddCmd(u, DefaultMinPassLen, FALSE, TRUE) : u \in UserInputs}

\* what two shells side by side are given to do
TwoShellCmds == {Cmd("list")} \cup {SetCmd(id) : id \in Ids}

\* the rule list on disk, as the next run of the executable will load it
DiskConfig == Config_open(fs).config
DiskUsers == Users_open(fs).users

\* a new shell with process id p: a login shell (q = 0), or a shell started
\* from shell q, which passes on its exported variables but not its functions
StartShell(p, q) ==
    /\ ~sh[p].alive
    /\ q = 0 \/ (q \in Pids /\ sh[q].alive)
    /\ sh' = [sh EXCEPT ![p] =
                 [NoShell EXCEPT !.alive = TRUE,
                                 !.env = IF q = 0 THEN <<>> ELSE sh[q].env,
                                 !.cwd = IF q = 0 THEN DirOther ELSE sh[q].cwd]]
    /\ UNCHANGED <<fs, gus, res, home>>

\* the shell ends; its session script stays in the temp directory
ExitShell(p) ==
    /\ sh[p].alive
    /\ sh' = [sh EXCEPT ![p] = NoShell]
    /\ LET path == get_session_script_path(p)
       IN fs' = [fs EXCEPT !.sess[path].left = fs.sess[path].exists]
    /\ UNCHANGED <<gus, res, home>>

\* eval "$(gus setup)", the executable called as a child of the shell
InstallSetup(p) ==
    /\ AtPrompt(p)
    /\ LET r == run(Cmd("setup"), fs, sh[p].env, sh[p].cwd, home, p)
           e == eval_setup_script(sh[p], r.script, r.fs)
       IN /\ fs' = e.fs
          /\ sh' = [sh EXCEPT ![p] =
                       [e.sh EXCEPT !.cleared =
                           IF IsEmpty(sh[p].env, r.script.loaded_flag_key)
                           THEN LET old == fs.sess[r.script.session_script_path]
                                IN old.left /\ old.doc # <<>>
                           ELSE @]]
    /\ UNCHANGED <<gus, res, home>>

\* gus <cmd>
GusCmd(p, cmd) ==
    /\ AtPrompt(p)
    /\ cmd.op = "as_add" => Len(DiskConfig.auto_switch_patterns) < MaxRules
    /\ Invoke(p, sh[p], cmd, "top")

\* the gus function goes on after the executable returned
WrapperReturn(p) ==
    /\ sh[p].alive /\ sh[p].pc = "wrap"
    /\ sh' = [sh EXCEPT ![p] = continue(wrapper_return(sh[p], fs))]
    /\ UNCHANGED <<fs, gus, res, home>>

BareReturn(p) ==
    /\ sh[p].alive /\ sh[p].pc = "bare"
    /\ sh' = [sh EXCEPT ![p] = continue(bare_return(sh[p]))]
    /\ UNCHANGED <<fs, gus, res, home>>

\* git <args>: gus.rs 200-221, 236-239
GitCall(p) ==
    /\ AtPrompt(p)
    /\ IF /\ sh[p].fn.git.defined
          /\ sh[p].fn.git.force_use_gus
          /\ IsEmpty(sh[p].env, "GUS_USER_ID")
       THEN Invoke(p, sh[p], Cmd("list"), "git_list")
       ELSE /\ sh' = [sh EXCEPT ![p].pc = "git_cmd"]
            /\ UNCHANGED <<fs, gus, res, home>>

\* read user_id; gus set "$user_id"
GitRead(p, user_id) ==
    /\ sh[p].alive /\ sh[p].pc = "git_read"
    /\ Invoke(p, sh[p], SetCmd(user_id), "git_set")

\* command git "$@": the real git runs with the shell's environment
GitExec(p, status) ==
    /\ sh[p].alive /\ sh[p].pc = "git_cmd"
    /\ sh' = [sh EXCEPT ![p].pc = "idle", ![p].status = status]
    /\ UNCHANGED <<fs, gus, res, home>>

\* cd <dir>: the builtin, or the function of gus.rs 222-233
CdCall(p, dir) ==
    /\ AtPrompt(p)
    /\ IF sh[p].fn.cd.defined
       THEN Invoke(p, [sh[p] EXCEPT !.cwd = dir], Cmd("check"), "cd")
       ELSE /\ sh' = [sh EXCEPT ![p].cwd = dir, ![p].status = 0]
            /\ UNCHANGED <<fs, gus, res, home>>

NoGus == [users |-> <<>>, config |-> Config_default,
          auto_switcher |-> AutoSwitcher_new(Config_default, <<>>)]
\* the last call on the instance: the method, its arguments and what it gave
\* (id is the user id passed, or the one should_switch found)
Res(op, id, pattern, dir, err, ret) ==
    [op |-> op, id |-> id, pattern |-> pattern, dir |-> dir, err |-> err, ret |-> ret]
NoRes == Res("", "", <<>>, <<>>, NoErr, TRUE)
SomeHome == [some |-> TRUE, dir |-> HomeDir]
NoHome == [some |-> FALSE, dir |-> <<>>]

NoSess == [q \in SessionPaths |-> NoFile]

\* a run of the executable from anywhere else (another terminal, a script):
\* it shares the registry and the configuration, and no session script
Elsewhere(cmd) ==
    /\ cmd.op = "as_add" => Len(DiskConfig.auto_switch_patterns) < MaxRules
    /\ fs' = [run(cmd, fs, <<>>, DirOther, home, 0).fs EXCEPT !.sess = fs.sess]
    /\ UNCHANGED <<sh, gus, res, home>>

\* a first run, or a configuration whose force_use_gus the user set to false
InitFiles ==
    {[users |-> NoFile,
      config |-> IF force THEN NoFile ELSE File([force_use_gus |-> FALSE]),
      sess |-> NoSess] : force \in BOOLEAN}

Init ==
    /\ fs \in InitFiles
    /\ sh = [p \in Pids |-> NoShell]
    /\ gus = NoGus
    /\ res = NoRes
    /\ home = SomeHome

\* one interactive shell, from login to exit; process ids are reused
Next ==
    \/ StartShell(1, 0)
    \/ ExitShell(1)
    \/ InstallSetup(1)
    \/ \E cmd \in SessionCmds : GusCmd(1, cmd)
    \/ WrapperReturn(1)
    \/ BareReturn(1)
    \/ GitCall(1)
    \/ \E user_id \in TypedIds : GitRead(1, user_id)
    \/ \E status \in {0, 1} : GitExec(1, status)
    \/ \E cmd \in RegistryCmds : Elsewhere(cmd)

Spec == Init /\ [][Next]_vars

\* two shells side by side, one possibly started from the other, over a
\* registry that the run starts with
Registries ==
    {[i \in D |-> CHOOSE u \in UserInputs : u.id = i /\ u.name = "n1"] : D \in SUBSET Ids}

InitTwo ==
    /\ fs \in {Users_save(r, f) : r \in Registries, f \in InitFiles}
    /\ sh = [p \in Pids |-> NoShell]
    /\ gus = NoGus
    /\ res = NoRes
    /\ home = SomeHome

\* what shell p does in one step
ShellStep(p) ==
    \/ \E q \in Pids \cup {0} : StartShell(p, q)
    \/ ExitShell(p)
    \/ InstallSetup(p)
    \/ \E cmd \in TwoShellCmds : GusCmd(p, cmd)
    \/ WrapperReturn(p)
    \/ BareReturn(p)

NextTwo == \E p \in Pids : ShellStep(p)

SpecTwo == InitTwo /\ [][NextTwo]_vars

(***************************************************************************)
(* The matcher on its own: an AutoSwitcher over any configuration, registry *)
(* and home directory, asked about a directory.                             *)
(***************************************************************************)
RECURSIVE SeqsUpTo(_, _)
SeqsUpTo(S, n) ==
    IF n = 0 THEN {<<>>}
    ELSE LET shorter == SeqsUpTo(S, n - 1)
         IN shorter \cup {Append(q, x) : q \in shorter, x \in S}

Rules == {AutoSwitchPattern(pt, id) : pt \in Patterns, id \in Ids}

\* the configurations a file may hold, rule lists not made by `auto-switch add` included
Configs ==
    {[Config_default EXCEPT !.auto_switch_enabled = e, !.auto_switch_patterns = r] :
        e \in BOOLEAN, r \in SeqsUpTo(Rules, MaxRules)}

InitMatch ==
    /\ fs \in {[users |-> File(Users_to_toml(r)), config |-> File(Config_to_toml(c)),
                sess |-> NoSess] : r \in Registries, c \in Configs}
    /\ gus = GitUserSwitcher_from(fs).gus
    /\ home \in {SomeHome, NoHome}
    /\ sh = [p \in Pids |-> NoShell]
    /\ res = NoRes

\* auto_switcher.should_switch(dir)
ShouldSwitch(dir) ==
    /\ LET r == should_switch(gus.auto_switcher, dir, home)
       IN res' = Res("should_switch", r.id, <<>>, dir, NoErr, r.some)
    /\ UNCHANGED <<fs, sh, gus, home>>

\* the process id of the shell that runs the instance's process
ApiPpid == 1

CheckAutoSwitch(dir) ==
    /\ LET r == check_auto_switch(gus, fs, dir, home, ApiPpid)
       IN /\ res' = Res("check_auto_switch", "", <<>>, dir, r.err, r.ret)
          /\ gus' = r.gus
          /\ fs' = r.fs
    /\ UNCHANGED <<sh, home>>

NextMatch ==
    \/ \E dir \in Dirs : ShouldSwitch(dir)
    \/ \E dir \in Dirs : CheckAutoSwitch(dir)

SpecMatch == InitMatch /\ [][NextMatch]_vars

(***************************************************************************)
(* One GitUserSwitcher and the calls of its methods, one after another     *)
(***************************************************************************)
\* the files the process finds: none yet, or a registry with a rule for it
ApiFiles ==
    {[users |-> NoFile, config |-> NoFile, sess |-> NoSess],
     [users |-> File(Users_to_toml([i \in {"a"} |-> User("a", "n1", "e1")])),
      config |-> File(Config_to_toml(
                    [Config_default EXCEPT !.auto_switch_enabled = TRUE,
                                           !.auto_switch_patterns =
                                               <<AutoSwitchPattern(PatWork, "a")>>])),
      sess |-> NoSess]}

ApiUsers == {User(id, "n1", "e1") : id \in Ids} \cup {User("a", "n2", "e2")}

InitApi ==
    /\ \E f \in ApiFiles :
          /\ fs = GitUserSwitcher_from(f).fs
          /\ gus = GitUserSwitcher_from(f).gus
    /\ home = SomeHome
    /\ sh = [p \in Pids |-> NoShell]
    /\ res = NoRes

Call(r, op, id, pattern, dir) ==
    /\ gus' = r.gus
    /\ fs' = r.fs
    /\ res' = Res(op, id, pattern, dir, r.err, r.ret)

ApiAddUser(user, pass, key_exists, keygen_ok) ==
    /\ Call(add_user(gus, fs, user, pass, key_exists, keygen_ok),
            "add_user", user.id, <<>>, <<>>)
    /\ UNCHANGED <<sh, home>>

ApiRemoveUser(id) ==
    /\ Call(remove_user(gus, fs, id), "remove_user", id, <<>>, <<>>)
    /\ UNCHANGED <<sh, home>>

ApiSwitchUser(id) ==
    /\ Call(switch_user(gus, fs, id, ApiPpid), "switch_user", id, <<>>, <<>>)
    /\ UNCHANGED <<sh, home>>

ApiEnable ==
    /\ Call(enable_auto_switch(gus, fs), "enable_auto_switch", "", <<>>, <<>>)
    /\ UNCHANGED <<sh, home>>

ApiDisable ==
    /\ Call(disable_auto_switch(gus, fs), "disable_auto_switch", "", <<>>, <<>>)
    /\ UNCHANGED <<sh, home>>

\* (the length guard bounds the rule list)
ApiAddPattern(pattern, user_id) ==
    /\ Len(gus.config.auto_switch_patterns) < MaxRules
    /\ Call(add_auto_switch_pattern(gus, fs, pattern, user_id),
            "add_auto_switch_pattern", user_id, pattern, <<>>)
    /\ UNCHANGED <<sh, home>>

ApiRemovePattern(pattern) ==
    /\ Call(remove_auto_switch_pattern(gus, fs, pattern),
            "remove_auto_switch_pattern", "", pattern, <<>>)
    /\ UNCHANGED <<sh, home>>

ApiCheck(dir) ==
    /\ Call(check_auto_switch(gus, fs, dir, home, ApiPpid),
            "check_auto_switch", "", <<>>, dir)
    /\ UNCHANGED <<sh, home>>

Passes == {NoPass} \cup {SomePass(n) : n \in PassLens}

NextApi ==
    \/ \E user \in ApiUsers, pass \in Passes, key_exists, keygen_ok \in BOOLEAN :
          ApiAddUser(user, pass, key_exists, keygen_ok)
    \/ \E id \in Ids : ApiRemoveUser(id)
    \/ \E id \in Ids : ApiSwitchUser(id)
    \/ ApiEnable
    \/ ApiDisable
    \/ \E pattern \in TypedPatterns, id \in Ids : ApiAddPattern(pattern, id)
    \/ \E pattern \in TypedPatterns : ApiRemovePattern(pattern)
    \/ \E dir \in Dirs : ApiCheck(dir)

SpecApi == InitApi /\ [][NextApi]_vars

(***************************************************************************)
(* The executable run again and again from one shell: every invocation is  *)
(* a process that loads the files, runs one subcommand and ends            *)
(***************************************************************************)
InitCli ==
    /\ fs \in InitFiles
    /\ sh = [p \in Pids |-> NoShell]
    /\ gus = NoGus
    /\ res = NoRes
    /\ home = SomeHome

\* `gus <cmd>` in the directory dir
Invocation(cmd, dir) ==
    LET r == run(cmd, fs, <<>>, dir, home, ApiPpid)
    IN /\ fs' = r.fs
       /\ res' = Res(cmd.op, cmd.id, cmd.pattern, dir, r.err, r.ret)

CliAdd(user, keygen_ok) ==
    /\ Invocation(AddCmd(user, DefaultMinPassLen, FALSE, keygen_ok), DirOther)
    /\ UNCHANGED <<sh, gus, home>>

CliRemove(id) ==
    /\ Invocation(RemoveCmd(id), DirOther)
    /\ UNCHANGED <<sh, gus, home>>

CliSet(id) ==
    /\ Invocation(SetCmd(id), DirOther)
    /\ UNCHANGED <<sh, gus, home>>

CliEnable ==
    /\ Invocation(Cmd("enable"), DirOther)
    /\ UNCHANGED <<sh, gus, home>>

CliDisable ==
    /\ Invocation(Cmd("disable"), DirOther)
    /\ UNCHANGED <<sh, gus, home>>

\* (the length guard bounds the rule list)
CliAsAdd(pattern, id) ==
    /\ Len(DiskConfig.auto_switch_patterns) < MaxRules
    /\ Invocation(AsAddCmd(pattern, id), DirOther)
    /\ UNCHANGED <<sh, gus, home>>

CliAsRemove(pattern) ==
    /\ Invocation(AsRemoveCmd(pattern), DirOther)
    /\ UNCHANGED <<sh, gus, home>>

CliCheck(dir) ==
    /\ Invocation(Cmd("check"), dir)
    /\ UNCHANGED <<sh, gus, home>>

\* the patterns of the rules added here: both are globs
CliPatterns == {PatWork, PatAny}

NextCli ==
    \/ \E user \in ApiUsers, keygen_ok \in BOOLEAN : CliAdd(user, keygen_ok)
    \/ \E id \in Ids : CliRemove(id)
    \/ \E id \in Ids : CliSet(id)
    \/ CliEnable
    \/ CliDisable
    \/ \E pattern \in CliPatterns, id \in Ids : CliAsAdd(pattern, id)
    \/ \E pattern \in CliPatterns : CliAsRemove(pattern)
    \/ \E dir \in Dirs : CliCheck(dir)

SpecCli == InitCli /\ [][NextCli]_vars

(***************************************************************************)
(* A Config and a Users value, saved to their files and opened again        *)
(***************************************************************************)
\* an identity with or without a key path of its own
KeyedUsers ==
    {[User(id, "n1", "e1") EXCEPT !.sshkey_path = k] : id \in Ids, k \in {NoPath, "k"}}

KeyedRegistries ==
    {r \in UNION {[D -> KeyedUsers] : D \in SUBSET Ids} : \A i \in DOMAIN r : r[i].id = i}

InitRound ==
    /\ \E c \in Configs, r \in KeyedRegistries, force \in BOOLEAN :
          gus = [users |-> r, config |-> [c EXCEPT !.force_use_gus = force],
                 auto_switcher |-> NoGus.auto_switcher]
    /\ fs = [users |-> NoFile, config |-> NoFile, sess |-> NoSess]
    /\ sh = [p \in Pids |-> NoShell]
    /\ res = NoRes
    /\ home = SomeHome

ConfigSave ==
    /\ fs' = Config_save(gus.config, fs)
    /\ res' = Res("config_save", "", <<>>, <<>>, NoErr, TRUE)
    /\ UNCHANGED <<sh, gus, home>>

ConfigOpen ==
    /\ LET r == Config_open(fs)
       IN /\ gus' = [gus EXCEPT !.config = r.config]
          /\ fs' = r.fs
    /\ res' = Res("config_open", "", <<>>, <<>>, NoErr, TRUE)
    /\ UNCHANGED <<sh, home>>

UsersSave ==
    /\ fs' = Users_save(gus.users, fs)
    /\ res' = Res("users_save", "", <<>>, <<>>, NoErr, TRUE)
    /\ UNCHANGED <<sh, gus, home>>

UsersOpen ==
    /\ LET r == Users_open(fs)
       IN /\ gus' = [gus EXCEPT !.users = r.users]
          /\ fs' = r.fs
    /\ res' = Res("users_open", "", <<>>, <<>>, NoErr, TRUE)
    /\ UNCHANGED <<sh, home>>

NextRound == ConfigSave \/ ConfigOpen \/ UsersSave \/ UsersOpen

SpecRound == InitRound /\ [][NextRound]_vars

(***************************************************************************)
(* Two invocations of the executable at the same time.  Here gus and res   *)
(* hold one instance and one result per process: a process loads the files *)
(* (from), then runs its method, which saves.  Nothing orders the two.     *)
(***************************************************************************)
Running == "running"

RaceCmds == {AddCmd(User(id, "n1", "e1"), DefaultMinPassLen, FALSE, TRUE) : id \in Ids}
            \cup {RemoveCmd(id) : id \in Ids}

InitRace ==
    /\ fs \in {Users_save(r, [users |-> NoFile, config |-> NoFile, sess |-> NoSess]) :
                  r \in Registries}
    /\ gus = [p \in Pids |-> NoGus]
    /\ res = [p \in Pids |-> NoRes]
    /\ sh = [p \in Pids |-> NoShell]
    /\ home = SomeHome

\* cli.rs 104: the process p starts and builds its instance from the files
RaceLoad(p, cmd) ==
    /\ res[p].op = ""
    /\ LET c == GitUserSwitcher_from(fs)
       IN /\ gus' = [gus EXCEPT ![p] = c.gus]
          /\ fs' = c.fs
    /\ res' = [res EXCEPT ![p] = Res(cmd.op, cmd.id, <<>>, <<>>, Running, FALSE)]
    /\ UNCHANGED <<sh, home>>

\* cli.rs 145, 148: the method of the subcommand, on the instance of p
RaceRun(p) ==
    /\ res[p].err = Running
    /\ LET r == IF res[p].op = "add"
                THEN add_user(gus[p], fs, User(res[p].id, "n1", "e1"),
                              SomePass(DefaultMinPassLen), FALSE, TRUE)
                ELSE remove_user(gus[p], fs, res[p].id)
       IN /\ gus' = [gus EXCEPT ![p] = r.gus]
          /\ fs' = r.fs
          /\ res' = [res EXCEPT ![p].err = r.err, ![p].ret = r.ret]
    /\ UNCHANGED <<sh, home>>

NextRace ==
    \/ \E p \in Pids, cmd \in RaceCmds : RaceLoad(p, cmd)
    \/ \E p \in Pids : RaceRun(p)

SpecRace == InitRace /\ [][NextRace]_vars

(***************************************************************************)
(* The session of a shell, as the state machine of the design names it     *)
(***************************************************************************)
\* the instance the next run of the executable would load
Loaded == GitUserSwitcher_from(fs).gus

Flagged(s) == ~IsEmpty(s.env, "GUS_LOADED_FLAG")

Session(s, g) ==
    IF ~Flagged(s) THEN "Uninitialized"
    ELSE IF get_current_user(g, s.env).some THEN "Active" ELSE "NoIdentity"

SessionFile(p) == fs.sess[get_session_script_path(p)]

\* the shell p calls the executable in this step
Issues(p) ==
    /\ sh[p].alive /\ sh[p].pc \in {"idle", "git_read"}
    /\ sh'[p].alive /\ sh'[p].pc \in {"wrap", "bare"}

\* the call of the executable from shell p ends in this step
Returns(p) ==
    /\ sh[p].alive /\ sh[p].pc \in {"wrap", "bare"}
    /\ sh'[p].alive /\ sh'[p].pc \notin {"wrap", "bare"}

\* the exports of doc are those of the identity user
ExportsOf(doc, user) ==
    /\ doc # <<>>
    /\ doc["GUS_USER_ID"] = user.id
    /\ doc["GIT_AUTHOR_NAME"] = user.name
    /\ doc["GIT_AUTHOR_EMAIL"] = user.email
    /\ doc["GIT_COMMITTER_NAME"] = user.name
    /\ doc["GIT_COMMITTER_EMAIL"] = user.email

\* the environment env carries every export of doc
Carries(env, doc) == \A n \in DOMAIN doc : n \in DOMAIN env /\ env[n] = doc[n]

(***************************************************************************)
(* C2.  A successful `set id` through the gus function of an initialized   *)
(* shell writes the exports of the registry's identity id and leaves the   *)
(* environment alone; the environment stays as it is until the function    *)
(* sources the script; after that GUS_USER_ID is id, the session is        *)
(* Active, and get_current_user gives id with the name and email of the    *)
(* registry while the registry still holds that identity.                  *)
(***************************************************************************)
C2_SwitchTakesEffect ==
    [][\A p \in Pids :
          /\ (Issues(p) /\ sh'[p].pc = "wrap" /\ sh'[p].op = "set" /\ sh'[p].exit = 0)
             => (/\ sh'[p].arg \in DOMAIN DiskUsers
                 /\ sh'[p].env = sh[p].env
                 /\ ExportsOf(SessionFile(p)'.doc, DiskUsers[sh'[p].arg]))
          /\ (sh[p].alive /\ sh[p].pc = "wrap" /\ sh'[p].alive /\ sh'[p].pc = "wrap")
             => (sh'[p].env = sh[p].env /\ SessionFile(p)' = SessionFile(p))
          /\ (Returns(p) /\ sh[p].pc = "wrap" /\ sh[p].op = "set" /\ sh[p].exit = 0)
             => LET env == sh'[p].env
                    cur == get_current_user(Loaded', env)
                IN /\ Flagged(sh'[p])
                   /\ ~IsEmpty(env, "GUS_USER_ID")
                   /\ env["GUS_USER_ID"] = sh[p].arg
                   /\ sh[p].arg \in DOMAIN DiskUsers'
                      => (/\ Session(sh'[p], Loaded') = "Active"
                          /\ cur.user = DiskUsers'[sh[p].arg])]_vars

(***************************************************************************)
(* C3.  `set id` for an id that the registry does not hold ends with the   *)
(* error "user does not exist" and a non-zero exit status, writes no       *)
(* session script, and neither the call nor the return of the gus          *)
(* function changes the environment or the session scripts.                *)
(***************************************************************************)
C3_UnknownIdentity ==
    [][\A p \in Pids :
          /\ (Issues(p) /\ sh'[p].op = "set" /\ sh'[p].arg \notin DOMAIN DiskUsers)
             => (/\ sh'[p].exit # 0
                 /\ sh'[p].err = "user does not exist"
                 /\ fs'.sess = fs.sess
                 /\ sh'[p].env = sh[p].env)
          /\ (Returns(p) /\ sh[p].op = "set" /\ sh[p].exit # 0)
             => (/\ sh'[p].env = sh[p].env
                 /\ fs'.sess = fs.sess
                 /\ sh'[p].status = sh[p].exit)]_vars

\* the failed switch in a shell whose active identity's exports are in the script
C3_Witness ==
    \E p \in Pids :
        /\ sh[p].alive /\ sh[p].pc = "wrap" /\ sh[p].op = "set"
        /\ sh[p].err = "user does not exist"
        /\ ~IsEmpty(sh[p].env, "GUS_USER_ID")
        /\ SessionFile(p).doc # <<>>
        /\ Carries(sh[p].env, SessionFile(p).doc)

(***************************************************************************)
(* C4.  When the executable exits non-zero the gus function returns that   *)
(* status and changes neither the environment nor a file; the environment  *)
(* changes in the return of the function only after exit status 0.         *)
(***************************************************************************)
C4_SourceOnlyOnSuccess ==
    [][\A p \in Pids :
          (Returns(p) /\ sh[p].pc = "wrap")
          => /\ sh[p].exit # 0
                => (/\ sh'[p].status = sh[p].exit
                    /\ sh'[p].env = sh[p].env
                    /\ fs' = fs)
             /\ sh'[p].env # sh[p].env => sh[p].exit = 0]_vars

\* a failed command, with exports in the script that sourcing would read
C4_Witness ==
    \E p \in Pids :
        /\ sh[p].alive /\ sh[p].pc = "wrap" /\ sh[p].exit # 0
        /\ SessionFile(p).exists /\ SessionFile(p).doc # <<>>

(***************************************************************************)
(* C6 (as stated).  In a shell whose git function was installed with       *)
(* force_use_gus, the real git runs only while GUS_USER_ID names an        *)
(* identity that the registry holds.                                       *)
(***************************************************************************)
C6_GitOnlyWhenActive ==
    [][\A p \in Pids :
          (/\ sh[p].alive /\ sh[p].pc = "git_cmd"
           /\ sh[p].fn.git.defined /\ sh[p].fn.git.force_use_gus
           /\ sh'[p].alive /\ sh'[p].pc = "idle")
          => Session(sh[p], Loaded) = "Active"]_vars

(***************************************************************************)
(* C7.  The setup script evaluated in an Uninitialized shell leaves the    *)
(* session NoIdentity with the functions installed and no session script   *)
(* at the shell's path; and in every state a shell with the gus function   *)
(* has no script left by an earlier shell at its path, and has             *)
(* GUS_USER_ID set only if a script written since the install exists.      *)
(***************************************************************************)
C7_InstallClearsStale ==
    /\ [](\A p \in Pids :
            (sh[p].alive /\ sh[p].fn.gus.defined)
            => (/\ ~SessionFile(p).left
                /\ sh[p].fn.gus.session_script_path = get_session_script_path(p)
                /\ ~IsEmpty(sh[p].env, "GUS_USER_ID") => SessionFile(p).exists))
    /\ [][\A p \in Pids :
            (InstallSetup(p) /\ ~Flagged(sh[p]))
            => (/\ Session(sh'[p], Loaded') = "NoIdentity"
                /\ IsEmpty(sh'[p].env, "GUS_USER_ID")
                /\ sh'[p].fn.gus.defined
                /\ ~SessionFile(p)'.exists)]_vars

\* an initialized shell, NoIdentity, whose install found left-behind exports
C7_Witness ==
    \E p \in Pids :
        /\ sh[p].alive /\ sh[p].fn.gus.defined /\ sh[p].cleared
        /\ Session(sh[p], Loaded) = "NoIdentity"
        /\ IsEmpty(sh[p].env, "GUS_USER_ID")
        /\ DiskUsers # <<>>

(***************************************************************************)
(* C5.  Two shells have distinct session script paths, the gus function    *)
(* of a shell sources the path of that shell, and a step of one shell      *)
(* (start, exit, setup, a command, the return of a function) changes       *)
(* neither the session script nor the environment of the other.            *)
(***************************************************************************)
C5_ShellsIsolated ==
    [][\A q \in Pids : ShellStep(q) =>
          \A p \in Pids \ {q} :
              /\ get_session_script_path(p) # get_session_script_path(q)
              /\ SessionFile(p)' = SessionFile(p)
              /\ sh'[p].env = sh[p].env
              /\ sh'[q].fn.gus.defined
                 => sh'[q].fn.gus.session_script_path = get_session_script_path(q)]_vars

\* both shells initialized, each with its own identity sourced from its own script
C5_Witness ==
    /\ \A p \in Pids : /\ sh[p].alive /\ sh[p].fn.gus.defined /\ sh[p].pc = "idle"
                       /\ SessionFile(p).doc # <<>>
                       /\ Carries(sh[p].env, SessionFile(p).doc)
    /\ sh[1].env["GUS_USER_ID"] = "a"
    /\ sh[2].env["GUS_USER_ID"] = "b"

(***************************************************************************)
(* C8.  The setup script generated and evaluated in a shell whose loaded   *)
(* flag is set changes neither the environment nor the functions of the    *)
(* shell, and so not its session.                                          *)
(***************************************************************************)
C8_ReinstallNoOp ==
    [][\A p \in Pids :
          (InstallSetup(p) /\ Flagged(sh[p]))
          => (/\ sh'[p].env = sh[p].env
              /\ sh'[p].fn = sh[p].fn
              /\ Session(sh'[p], Loaded') = Session(sh[p], Loaded))]_vars

\* an Active shell with its functions, after a second setup emptied its script
C8_Witness ==
    \E p \in Pids :
        /\ sh[p].alive /\ sh[p].fn.gus.defined /\ sh[p].pc = "idle"
        /\ Session(sh[p], Loaded) = "Active"
        /\ SessionFile(p).exists /\ SessionFile(p).doc = <<>>

(***************************************************************************)
(* C9 (as stated).  A shell that starts, also as the child of another      *)
(* shell, has no loaded flag and no gus function.                          *)
(***************************************************************************)
C9_NewShellUninitialized ==
    [][\A p \in Pids :
          (~sh[p].alive /\ sh'[p].alive)
          => (Session(sh'[p], Loaded') = "Uninitialized" /\ ~sh'[p].fn.gus.defined)]_vars

(***************************************************************************)
(* Claims about the matcher and the rule list                               *)
(***************************************************************************)
\* the pattern with a leading "~" replaced by the home directory
TildeExpanded(pattern) ==
    IF pattern # <<>> /\ Head(pattern) = "~" THEN HomeDir \o Tail(pattern) ELSE pattern

\* rule i of the list applies to the directory: its expanded pattern is a
\* glob that matches it, and the registry holds the identity it names
Applies(rules, users, i, dir) ==
    /\ Pattern_new_ok(TildeExpanded(rules[i].pattern))
    /\ Pattern_matches(TildeExpanded(rules[i].pattern), dir)
    /\ rules[i].user_id \in DOMAIN users

\* C1: with auto-switch enabled and the home directory known, should_switch
\* gives the identity of the first rule, in list order, whose tilde-expanded
\* pattern matches the directory and whose identity is in the registry; it
\* gives none exactly when no rule is such.  Rules naming a missing identity
\* are passed over.
C1_FirstApplicableRule ==
    (/\ res.op = "should_switch"
     /\ gus.auto_switcher.config.auto_switch_enabled
     /\ home.some) =>
        LET rules == gus.auto_switcher.config.auto_switch_patterns
            users == gus.auto_switcher.users
            I == {i \in 1..Len(rules) : Applies(rules, users, i, res.dir)}
        IN IF I = {} THEN ~res.ret
           ELSE /\ res.ret
                /\ \E i \in I : /\ \A j \in I : i <= j
                                /\ res.id = rules[i].user_id

\* the first rule matches the directory but names a missing identity, and
\* the second rule is the one that gave the identity
C1_Witness ==
    /\ res.op = "should_switch"
    /\ home.some
    /\ res.ret
    /\ LET rules == gus.auto_switcher.config.auto_switch_patterns
           users == gus.auto_switcher.users
       IN /\ Len(rules) = 2
          /\ Pattern_matches(TildeExpanded(rules[1].pattern), res.dir)
          /\ rules[1].user_id \notin DOMAIN users
          /\ Applies(rules, users, 2, res.dir)
          /\ res.id = rules[2].user_id

\* C10: add_auto_switch_pattern with a user id the registry does not hold
\* fails with "User does not exist", also when the pattern is invalid as
\* well, and leaves the rule list as it was, in memory and in the file.
C10_MissingUserFirst ==
    [][\A pattern \in TypedPatterns, user_id \in Ids :
          (ApiAddPattern(pattern, user_id) /\ user_id \notin DOMAIN gus.users) =>
              /\ res'.err = "User does not exist"
              /\ gus'.config.auto_switch_patterns = gus.config.auto_switch_patterns
              /\ fs'.config = fs.config]_vars

\* the call named a missing identity and an invalid pattern
C10_Witness ==
    /\ res.op = "add_auto_switch_pattern"
    /\ res.id \notin DOMAIN gus.users
    /\ ~Pattern_new_ok(res.pattern)
    /\ res.err = "User does not exist"
    /\ Len(gus.config.auto_switch_patterns) > 0

\* C11: add_auto_switch_pattern with a user id the registry holds and a
\* pattern that is not a glob fails with "Invalid glob pattern" and leaves
\* the rule list as it was, in memory and in the file.
C11_InvalidPattern ==
    [][\A pattern \in TypedPatterns, user_id \in Ids :
          (/\ ApiAddPattern(pattern, user_id)
           /\ user_id \in DOMAIN gus.users
           /\ ~Pattern_new_ok(pattern)) =>
              /\ res'.err = "Invalid glob pattern"
              /\ gus'.config.auto_switch_patterns = gus.config.auto_switch_patterns
              /\ fs'.config = fs.config]_vars

\* the call named an identity of the registry and an invalid pattern, with a
\* rule in the list
C11_Witness ==
    /\ res.op = "add_auto_switch_pattern"
    /\ res.id \in DOMAIN gus.users
    /\ ~Pattern_new_ok(res.pattern)
    /\ res.err = "Invalid glob pattern"
    /\ Len(gus.config.auto_switch_patterns) > 0

\* the list without its entry i
WithoutEntry(rules, i) ==
    [k \in 1..(Len(rules) - 1) |-> IF k < i THEN rules[k] ELSE rules[k + 1]]

\* C12: remove_auto_switch_pattern(p) on a list with an entry whose pattern
\* is p gives true and a list one entry shorter, that entry gone and the
\* others in their order; on a list without such an entry it gives false
\* with no error and leaves the list and the configuration file as they were.
C12_RemoveExactlyOne ==
    [][\A pattern \in TypedPatterns :
          ApiRemovePattern(pattern) =>
              LET rules == gus.config.auto_switch_patterns
                  rules2 == gus'.config.auto_switch_patterns
                  I == {i \in 1..Len(rules) : rules[i].pattern = pattern}
              IN /\ res'.err = NoErr
                 /\ IF I # {}
                    THEN /\ res'.ret
                         /\ Len(rules2) = Len(rules) - 1
                         /\ \E i \in I : rules2 = WithoutEntry(rules, i)
                    ELSE /\ ~res'.ret
                         /\ rules2 = rules
                         /\ fs'.config = fs.config]_vars

\* the rules of the file that match the directory, by their place in the list
MatchingRules(dir) ==
    LET rules == DiskConfig.auto_switch_patterns
    IN {i \in 1..Len(rules) :
           /\ Pattern_new_ok(TildeExpanded(rules[i].pattern))
           /\ Pattern_matches(TildeExpanded(rules[i].pattern), dir)}

\* every rule that matches the directory names an identity that is gone
OnlyRemoved(dir) ==
    \A i \in MatchingRules(dir) :
        DiskConfig.auto_switch_patterns[i].user_id \notin DOMAIN DiskUsers

\* C13: an invocation that resolves a directory matched only by rules naming
\* removed identities finds none; `auto-switch check` there ends without
\* error and leaves the session scripts as they are; and `remove` leaves the
\* rule list as it is.
C13_RemovedIdentitySkipped ==
    /\ [](\A dir \in Dirs :
            OnlyRemoved(dir) => ~should_switch(Loaded.auto_switcher, dir, home).some)
    /\ [][\A dir \in Dirs :
            (CliCheck(dir) /\ OnlyRemoved(dir))
            => (res'.err = NoErr /\ fs'.sess = fs.sess)]_vars
    /\ [][\A id \in Ids :
            CliRemove(id)
            => DiskConfig'.auto_switch_patterns = DiskConfig.auto_switch_patterns]_vars

\* `auto-switch check`, enabled, in a directory whose only matching rules
\* name a removed identity, with the exports of an earlier switch in the script
C13_Witness ==
    /\ res.op = "check"
    /\ res.err = NoErr
    /\ DiskConfig.auto_switch_enabled
    /\ MatchingRules(res.dir) # {}
    /\ OnlyRemoved(res.dir)
    /\ DiskUsers # <<>>
    /\ fs.sess[get_session_script_path(ApiPpid)].doc # <<>>

\* C14: add_user with an id that the registry holds fails with "user already
\* exists" and changes neither the registry in memory nor the users file:
\* the identity under that id and every other entry stay as they were.
C14_DuplicateIdRejected ==
    [][(res'.op = "add_user" /\ res'.id \in DOMAIN gus.users) =>
          /\ res'.err = "user already exists"
          /\ gus'.users = gus.users
          /\ fs'.users = fs.users]_vars

\* the add named an id held with another name and email, beside another entry
C14_Witness ==
    /\ res.op = "add_user"
    /\ res.err = "user already exists"
    /\ res.id = "a"
    /\ DOMAIN gus.users = Ids
    /\ gus.users["a"].name = "n2"
    /\ Users_open(fs).users = gus.users

\* C15: remove_user(id) for an id the registry does not hold fails and
\* changes neither the registry in memory nor the users file; for an id it
\* holds it succeeds, the registry loses exactly that id with every other
\* identity as it was, and the users file holds the registry that results.
C15_RemoveUser ==
    [][res'.op = "remove_user" =>
          IF res'.id \notin DOMAIN gus.users
          THEN /\ res'.err = "user does not exist"
               /\ gus'.users = gus.users
               /\ fs'.users = fs.users
          ELSE /\ res'.err = NoErr
               /\ DOMAIN gus'.users = DOMAIN gus.users \ {res'.id}
               /\ \A i \in DOMAIN gus'.users : gus'.users[i] = gus.users[i]
               /\ fs'.users.exists
               /\ Users_from_toml(fs'.users.doc) = gus'.users]_vars

\* an identity was removed and another one stays, in memory and in the file
C15_Witness ==
    /\ res.op = "remove_user"
    /\ res.err = NoErr
    /\ res.id \notin DOMAIN gus.users
    /\ gus.users # <<>>
    /\ Users_from_toml(fs.users.doc) = gus.users

\* C16: add_user of an id the registry does not hold either fails, and then
\* the users file is as it was and the registry of the instance does not
\* hold the id (exists_user(id) is false), or succeeds, and then the id is
\* in the registry of the instance and in the users file.
C16_AddUserAllOrNothing ==
    [][(res'.op = "add_user" /\ res'.id \notin DOMAIN gus.users) =>
          IF res'.err # NoErr
          THEN /\ fs'.users = fs.users
               /\ ~Users_exists(gus'.users, res'.id)
          ELSE /\ Users_exists(gus'.users, res'.id)
               /\ Users_exists(Users_from_toml(fs'.users.doc), res'.id)]_vars

Succeeded(p) == res[p].op # "" /\ res[p].err = NoErr

\* the registry r shows the mutation that the invocation q made
Shows(r, q) ==
    IF res[q].op = "add" THEN res[q].id \in DOMAIN r ELSE res[q].id \notin DOMAIN r

\* C18: nothing makes an invocation wait for the other (one that has loaded
\* can always run and save), and when two invocations with mutations of
\* different ids both report success, each on an instance loaded before the
\* other saved, the users file holds the registry of one of them, without
\* the mutation of the other.
C18_LostUpdate ==
    /\ \A p \in Pids : res[p].err = Running => ENABLED RaceRun(p)
    /\ (/\ Succeeded(1) /\ Succeeded(2)
        /\ res[1].id # res[2].id
        /\ ~Shows(gus[1].users, 2)
        /\ ~Shows(gus[2].users, 1))
       => \E p \in Pids :
             /\ DiskUsers = gus[p].users
             /\ \A q \in Pids \ {p} : ~Shows(DiskUsers, q)

\* `add a` and `add b` both reported success, and the file holds only b
C18_Witness ==
    /\ Succeeded(1) /\ res[1].op = "add" /\ res[1].id = "a"
    /\ Succeeded(2) /\ res[2].op = "add" /\ res[2].id = "b"
    /\ DOMAIN DiskUsers = {"b"}

(***************************************************************************)
(* One shell that changes directory: the setup script is installed, the    *)
(* auto-switch configuration is changed from the prompt, and cd is typed.  *)
(***************************************************************************)
CdCmds ==
    {Cmd(op) : op \in {"enable", "disable", "check"}}
    \cup {AsAddCmd(pt, id) : pt \in CliPatterns, id \in Ids}
    \cup {SetCmd(id) : id \in Ids}

NextCd ==
    \/ StartShell(1, 0)
    \/ InstallSetup(1)
    \/ \E cmd \in CdCmds : GusCmd(1, cmd)
    \/ WrapperReturn(1)
    \/ BareReturn(1)
    \/ \E dir \in Dirs : CdCall(1, dir)

SpecCd == InitTwo /\ [][NextCd]_vars

\* the cd typed at the prompt of shell p is over in this step: the builtin
\* has run, or the cd function of the setup script returns
CdDone(p) ==
    \/ /\ AtPrompt(p) /\ ~sh[p].fn.cd.defined
       /\ sh'[p].alive /\ sh'[p].pc = "idle"
       /\ sh'[p].fn = sh[p].fn /\ sh'[p].env = sh[p].env
       /\ sh'[p].cwd # sh[p].cwd
    \/ /\ Returns(p) /\ sh[p].k = "cd"

\* the identity the rules on disk give for dir, as a run of the executable
\* resolves it
Resolved(dir) == should_switch(Loaded.auto_switcher, dir, home)

(***************************************************************************)
(* C19.  In an initialized shell, when auto_switch_enabled is true in the  *)
(* configuration on disk and the rules resolve the directory of a cd to    *)
(* the identity u, the cd leaves the session Active(u): GUS_USER_ID is u.  *)
(* This is to hold also when auto-switch was enabled after the setup       *)
(* script was installed.                                                   *)
(***************************************************************************)
C19_CdSwitches ==
    [][\A p \in Pids :
          (/\ CdDone(p)
           /\ Flagged(sh[p]) /\ sh[p].fn.gus.defined
           /\ DiskConfig.auto_switch_enabled
           /\ Resolved(sh'[p].cwd).some)
          => /\ "GUS_USER_ID" \in DOMAIN sh'[p].env
             /\ sh'[p].env["GUS_USER_ID"] = Resolved(sh'[p].cwd).id]_vars

\* the same, for the shells whose setup script carried the cd function
C19_CdFunctionSwitches ==
    [][\A p \in Pids :
          (/\ Returns(p) /\ sh[p].k = "cd"
           /\ DiskConfig.auto_switch_enabled
           /\ Resolved(sh'[p].cwd).some)
          => /\ "GUS_USER_ID" \in DOMAIN sh'[p].env
             /\ sh'[p].env["GUS_USER_ID"] = Resolved(sh'[p].cwd).id]_vars

\* should_switch gives none for every rule list, registry, home and directory
\* of the bounds when auto_switch_enabled is false
DisabledGivesNone ==
    \A c \in Configs, r \in Registries, h \in {SomeHome, NoHome}, dir \in Dirs :
        ~c.auto_switch_enabled => ~should_switch(AutoSwitcher_new(c, r), dir, h).some

\* the rules on disk, were the flag not looked at, give an identity for dir
RuleMatches(dir) ==
    scan_patterns(DiskConfig.auto_switch_patterns, DiskUsers, dir, home).some

\* shell p is running `auto-switch check`, typed or called by the cd function
Checking(p) == sh[p].alive /\ sh[p].pc \in {"wrap", "bare"} /\ sh[p].op = "check"

(***************************************************************************)
(* C20.  With auto_switch_enabled false, should_switch gives none for      *)
(* every directory and rule list; a run of `auto-switch check` leaves the  *)
(* session scripts as they are, and when it returns to the shell the       *)
(* environment, and with it the active identity, is what it was; this also *)
(* when a rule matches the directory and the shell still has the cd        *)
(* function of an earlier setup.                                           *)
(***************************************************************************)
C20_DisabledCheckInert ==
    /\ [](DisabledGivesNone /\ (~DiskConfig.auto_switch_enabled
                                => \A dir \in Dirs : ~Resolved(dir).some))
    /\ [][\A p \in Pids :
            /\ (Issues(p) /\ Checking(p)' /\ ~DiskConfig.auto_switch_enabled)
               => (fs'.sess = fs.sess /\ sh'[p].exit = 0)
            /\ (Returns(p) /\ Checking(p) /\ ~DiskConfig.auto_switch_enabled)
               => sh'[p].env = sh[p].env]_vars

C20_Witness ==
    /\ ~DiskConfig.auto_switch_enabled
    /\ Checking(1) /\ sh[1].k = "cd" /\ sh[1].fn.cd.defined
    /\ RuleMatches(sh[1].cwd)
    /\ get_current_user(Loaded, sh[1].env).some
    /\ get_current_user(Loaded, sh[1].env).user.id
         # scan_patterns(DiskConfig.auto_switch_patterns, DiskUsers, sh[1].cwd, home).id

\* the matcher of the instance answers as one made from the instance's
\* current configuration and registry would
MatcherCurrent ==
    /\ list_auto_switch_patterns(gus) = gus.config.auto_switch_patterns
    /\ \A dir \in Dirs :
          should_switch(gus.auto_switcher, dir, home)
            = should_switch(AutoSwitcher_new(gus.config, gus.users), dir, home)

(***************************************************************************)
(* C21.  A successful call on the instance keeps its matcher current:      *)
(* list_auto_switch_patterns gives the instance's rule list, and           *)
(* check_auto_switch resolves against the instance's rules, flag and       *)
(* registry.                                                               *)
(***************************************************************************)
C21_MatcherFollowsInstance ==
    [][(MatcherCurrent /\ res'.err = NoErr) => MatcherCurrent']_vars

\* the pattern of the rule, once its tilde is expanded, is a glob
ValidRule(rule) == Pattern_new_ok(expand_tilde(rule.pattern, home))

(***************************************************************************)
(* C22.  should_switch passes over a stored rule whose expanded pattern is *)
(* not a glob: it raises no error and answers as it would for the list     *)
(* without such rules, so the rule never wins and later rules still do.    *)
(***************************************************************************)
C22_InvalidRuleSkipped ==
    res.op = "should_switch" =>
        LET as == gus.auto_switcher
            valid == SelectSeq(as.config.auto_switch_patterns, ValidRule)
            r == should_switch(
                    [as EXCEPT !.config.auto_switch_patterns = valid], res.dir, home)
        IN /\ res.err = NoErr
           /\ res.ret = r.some
           /\ res.id = r.id
           /\ res.ret => \E i \in 1..Len(valid) : valid[i].user_id = res.id

\* the first rule is not a glob and names a registered identity, and the
\* second rule wins
C22_Witness ==
    /\ res.op = "should_switch"
    /\ res.ret
    /\ LET rules == gus.auto_switcher.config.auto_switch_patterns
       IN /\ Len(rules) = 2
          /\ ~ValidRule(rules[1])
          /\ rules[1].user_id \in DOMAIN gus.auto_switcher.users
          /\ rules[1].user_id # rules[2].user_id
          /\ res.id = rules[2].user_id

\* the pattern of the rule does not start with a tilde
NoTilde(rule) == rule.pattern = <<>> \/ Head(rule.pattern) # "~"

C24_AppendsVerbatim ==
    [][(res'.op = "add_auto_switch_pattern" /\ res'.err = NoErr) =>
          /\ gus'.config.auto_switch_patterns
               = Append(gus.config.auto_switch_patterns,
                        AutoSwitchPattern(res'.pattern, res'.id))
          /\ gus'.config = [gus.config EXCEPT !.auto_switch_patterns =
                                gus'.config.auto_switch_patterns]
          /\ gus'.users = gus.users
          /\ DiskConfig' = gus'.config
          /\ fs'.users = fs.users /\ fs'.sess = fs.sess]_vars

\* a rule with a tilde was added behind a rule of another identity
C24_Witness ==
    /\ res.op = "add_auto_switch_pattern" /\ res.err = NoErr
    /\ Head(res.pattern) = "~"
    /\ Len(gus.config.auto_switch_patterns) = 2
    /\ gus.config.auto_switch_patterns[2] = AutoSwitchPattern(res.pattern, res.id)
    /\ gus.config.auto_switch_patterns[1].user_id # res.id
    /\ Len(DiskConfig.auto_switch_patterns) = 2

\* the variables a session script exports
ExportNames ==
    {"GUS_USER_ID", "GIT_AUTHOR_NAME", "GIT_AUTHOR_EMAIL",
     "GIT_COMMITTER_NAME", "GIT_COMMITTER_EMAIL", "GIT_SSH_COMMAND"}

\* doc gives every exported variable, each with the value of the identity user
WholeOf(doc, user) ==
    /\ DOMAIN doc = ExportNames
    /\ ExportsOf(doc, user)
    /\ doc["GIT_SSH_COMMAND"]
         = <<"ssh -i">> \o get_sshkey_path(user, DiskConfig.default_sshkey_dir)
             \o <<"-F /dev/null">>

(***************************************************************************)
(* C25.  A session script that exists is empty or is the whole export set  *)
(* of one identity; a step that gives it new contents writes the whole     *)
(* export set of an identity the registry holds at that step; and when a   *)
(* successful `set id` returns through the gus function, every exported    *)
(* variable of the shell is the one of id, none is left from the identity  *)
(* before.                                                                 *)
(***************************************************************************)
C25_ChannelWhole ==
    /\ [](\A q \in SessionPaths :
            fs.sess[q].exists =>
                \/ fs.sess[q].doc = <<>>
                \/ \E u \in UserInputs : WholeOf(fs.sess[q].doc, u))
    /\ [][\A p \in Pids :
            /\ (SessionFile(p)'.doc # SessionFile(p).doc /\ SessionFile(p)'.doc # <<>>)
               => \E id \in DOMAIN DiskUsers : WholeOf(SessionFile(p)'.doc, DiskUsers[id])
            /\ (/\ Returns(p) /\ sh[p].pc = "wrap"
                /\ sh[p].op = "set" /\ sh[p].exit = 0 /\ sh[p].arg \in Ids)
               => \E u \in UserInputs :
                     /\ u.id = sh[p].arg
                     /\ ExportNames \subseteq DOMAIN sh'[p].env
                     /\ WholeOf([n \in ExportNames |-> sh'[p].env[n]], u)]_vars

\* the shell was Active(a), `set b` has written the script, and the function
\* has not sourced it yet
C25_Witness ==
    /\ sh[1].alive /\ sh[1].pc = "wrap" /\ sh[1].op = "set" /\ sh[1].exit = 0
    /\ sh[1].arg = "b"
    /\ "GUS_USER_ID" \in DOMAIN sh[1].env /\ sh[1].env["GUS_USER_ID"] = "a"
    /\ SessionFile(1).exists
    /\ \E u \in UserInputs : u.id = "b" /\ WholeOf(SessionFile(1).doc, u)

(***************************************************************************)
(* C26.  In an initialized shell, when the executable called by the gus    *)
(* function exits with status 0, the session script is there for the       *)
(* function to source, and the function returns status 0.                  *)
(***************************************************************************)
C26_SourceFindsChannel ==
    [][\A p \in Pids :
          (/\ Returns(p) /\ sh[p].pc = "wrap"
           /\ Flagged(sh[p]) /\ sh[p].exit = 0)
          => /\ fs.sess[sh[p].fn.gus.session_script_path].exists
             /\ sh'[p].status = 0]_vars

(***************************************************************************)
(* C27.  An `auto-switch check`, typed or called by the cd function, in a  *)
(* directory for which the rules give no identity leaves every session     *)
(* script as it is and exits with 0; when it returns through the gus       *)
(* function the shell's environment is what it was, so a session that was  *)
(* Active(id) stays Active(id).                                            *)
(***************************************************************************)
C27_NoRuleNoChange ==
    [][\A p \in Pids :
          /\ (Issues(p) /\ Checking(p)' /\ ~Resolved(sh'[p].cwd).some)
             => (fs'.sess = fs.sess /\ sh'[p].exit = 0 /\ sh'[p].env = sh[p].env)
          /\ (Returns(p) /\ Checking(p) /\ ~Resolved(sh[p].cwd).some)
             => /\ sh'[p].env = sh[p].env
                /\ get_current_user(Loaded, sh'[p].env)
                     = get_current_user(Loaded, sh[p].env)]_vars

\* auto-switch is enabled and a rule is stored, the shell is Active and its
\* session script holds that identity, and the cd function runs the check
\* in a directory no rule matches
C27_Witness ==
    /\ DiskConfig.auto_switch_enabled
    /\ DiskConfig.auto_switch_patterns # <<>>
    /\ Checking(1) /\ sh[1].pc = "wrap" /\ sh[1].k = "cd"
    /\ ~Resolved(sh[1].cwd).some
    /\ get_current_user(Loaded, sh[1].env).some
    /\ SessionFile(1).exists
    /\ WholeOf(SessionFile(1).doc, get_current_user(Loaded, sh[1].env).user)

\* the author and committer variables git reads
GitIdentityNames ==
    {"GIT_AUTHOR_NAME", "GIT_AUTHOR_EMAIL", "GIT_COMMITTER_NAME", "GIT_COMMITTER_EMAIL"}

(***************************************************************************)
(* C28.  At the prompt of an initialized shell the identity reported as    *)
(* current and the one git uses agree: when GUS_USER_ID names an identity  *)
(* of the registry, the exported author and committer name and email are   *)
(* the registry's for that identity; when there is no current identity, no *)
(* author or committer variable is exported.  Stated for the sessions that *)
(* were switched to ids without shell metacharacters; the others are the   *)
(* matter of C2.                                                           *)
(***************************************************************************)
C28_CurrentAgreesWithGit ==
    \A p \in Pids :
        (/\ AtPrompt(p) /\ Flagged(sh[p]) /\ sh[p].fn.gus.defined
         /\ "GUS_USER_ID" \in DOMAIN sh[p].env => sh[p].env["GUS_USER_ID"] \in Ids) =>
            LET env == sh[p].env
                cur == get_current_user(Loaded, env)
            IN IF cur.some
               THEN /\ GitIdentityNames \subseteq DOMAIN env
                    /\ env["GIT_AUTHOR_NAME"] = cur.user.name
                    /\ env["GIT_AUTHOR_EMAIL"] = cur.user.email
                    /\ env["GIT_COMMITTER_NAME"] = cur.user.name
                    /\ env["GIT_COMMITTER_EMAIL"] = cur.user.email
               ELSE \A n \in GitIdentityNames : IsEmpty(env, n)
====
